---- MODULE Spec2Model ----
(***************************************************************************)
(* Model of aiden_health_app.py: the JSON entry store (load_entries,       *)
(* save_entries), the risk scorer (compute_risk), the demo seeder          *)
(* (demo_entries, load_demo) and the request handlers (index, log_view,    *)
(* load_demo, add_entry).                                                  *)
(*                                                                         *)
(* Python strings are sequences of one-character strings.  A Python value  *)
(* is a record [tag, i, s]: tag "int" (value i), "bool" (i = 1 or 0),      *)
(* "str" (characters s), or "absent" (the key is not in the dict).         *)
(***************************************************************************)
EXTENDS Integers, Sequences, FiniteSets, TLC

VARIABLES
    file,       \* DATA_PATH: [exists, torn, doc]
    response,   \* the last HTTP response sent by a handler
    arg,        \* the entry handed to compute_risk (scorer specification)
    risk,       \* what compute_risk returned for arg
    mem,        \* the in-memory list last saved or loaded (store specification)
    op,         \* the last store operation (store specification)
    proc        \* the two concurrent POST /entry requests (concurrent specification)

vars == <<file, response, arg, risk, mem, op, proc>>

\* Bounds of the model.
MaxEntries == 3
MaxDay == 3
MaxLen == 3

(***************************************************************************)
(* Python values                                                           *)
(***************************************************************************)
PyInt(n) == [tag |-> "int", i |-> n, s |-> <<>>]

PyBool(b) == [tag |-> "bool", i |-> IF b THEN 1 ELSE 0, s |-> <<>>]

PyStr(str) == [tag |-> "str", i |-> 0, s |-> str]

Absent == [tag |-> "absent", i |-> 0, s |-> <<>>]

\* dict.get(key, default)
Get(d, key, default) == IF d[key].tag = "absent" THEN default ELSE d[key]

\* Python truth value: bool(v), `if v:`; a missing key reads as None.
Truthy(v) ==
    CASE v.tag = "int" -> v.i # 0
      [] v.tag = "bool" -> v.i = 1
      [] v.tag = "str" -> v.s # <<>>
      [] OTHER -> FALSE

Min(a, b) == IF a < b THEN a ELSE b

(***************************************************************************)
(* Strings                                                                 *)
(***************************************************************************)
Digits == <<"0", "1", "2", "3", "4", "5", "6", "7", "8", "9">>

IsDigit(c) == \E k \in 1..10 : Digits[k] = c

DigitVal(c) == (CHOOSE k \in 1..10 : Digits[k] = c) - 1

RECURSIVE LStrip(_)
LStrip(str) == IF str # <<>> /\ Head(str) = " " THEN LStrip(Tail(str)) ELSE str

RECURSIVE RStrip(_)
RStrip(str) ==
    IF str # <<>> /\ str[Len(str)] = " "
    THEN RStrip(SubSeq(str, 1, Len(str) - 1))
    ELSE str

\* str.strip()
Strip(str) == RStrip(LStrip(str))

\* str.split(","): the tokens between commas; at least one token, possibly empty.
RECURSIVE Split(_, _)
Split(str, sep) ==
    IF \E k \in 1..Len(str) : str[k] = sep
    THEN LET k == CHOOSE j \in 1..Len(str) :
                      str[j] = sep /\ \A m \in 1..(j - 1) : str[m] # sep
         IN  <<SubSeq(str, 1, k - 1)>> \o Split(SubSeq(str, k + 1, Len(str)), sep)
    ELSE <<str>>

RECURSIVE DigitsValue(_)
DigitsValue(str) ==
    IF str = <<>> THEN 0
    ELSE 10 * DigitsValue(SubSeq(str, 1, Len(str) - 1)) + DigitVal(str[Len(str)])

\* int(str): surrounding whitespace stripped, an optional sign, then digits that
\* may be grouped by single underscores; anything else raises ValueError.
IntLiteral(str) ==
    LET t == Strip(str)
        signed == t # <<>> /\ Head(t) \in {"+", "-"}
        body == IF signed THEN Tail(t) ELSE t
        wellFormed ==
            /\ body # <<>>
            /\ \A k \in 1..Len(body) :
                  \/ IsDigit(body[k])
                  \/ /\ body[k] = "_"
                     /\ k > 1 /\ k < Len(body)
                     /\ IsDigit(body[k - 1]) /\ IsDigit(body[k + 1])
        digits == SelectSeq(body, IsDigit)
        magnitude == IF wellFormed THEN DigitsValue(digits) ELSE 0
    IN  [ok |-> wellFormed,
         val |-> IF signed /\ Head(t) = "-" THEN 0 - magnitude ELSE magnitude]

\* int(v) for a Python value: ints and bools convert, strings are parsed.
IntOf(v) ==
    CASE v.tag = "int" -> [ok |-> TRUE, val |-> v.i]
      [] v.tag = "bool" -> [ok |-> TRUE, val |-> v.i]
      [] v.tag = "str" -> IntLiteral(v.s)
      [] OTHER -> [ok |-> FALSE, val |-> 0]

(***************************************************************************)
(* compute_risk                                                            *)
(***************************************************************************)
\* Label with the upper threshold taken strictly
LabelStrict(score) ==
    IF score > 8 THEN "High"
    ELSE IF score >= 4 THEN "Moderate"
    ELSE "Low"

Label(score) ==
    IF score >= 8 THEN "High"
    ELSE IF score >= 4 THEN "Moderate"
    ELSE "Low"

\* ExposurePoints without the cap
ExposurePointsUncapped(entry) ==
    LET exposures == Get(entry, "exposures", PyStr(<<>>))
    IN  IF Truthy(exposures) THEN Len(Split(exposures.s, ",")) ELSE 0

ExposurePoints(entry) ==
    LET exposures == Get(entry, "exposures", PyStr(<<>>))
    IN  IF Truthy(exposures) THEN Min(3, Len(Split(exposures.s, ","))) ELSE 0

\* PeakFlowPoints with both thresholds taken inclusively
PeakFlowPointsInclusive(entry) ==
    IF Truthy(entry["peak_flow"])
    THEN LET peak_flow == IntOf(entry["peak_flow"])
         IN  IF ~peak_flow.ok THEN 0
             ELSE IF peak_flow.val <= 250 THEN 3
             ELSE IF peak_flow.val <= 325 THEN 2
             ELSE 0
    ELSE 0

PeakFlowPoints(entry) ==
    IF Truthy(entry["peak_flow"])
    THEN LET peak_flow == IntOf(entry["peak_flow"])
         IN  IF ~peak_flow.ok THEN 0            \* except ValueError: pass
             ELSE IF peak_flow.val < 250 THEN 3
             ELSE IF peak_flow.val < 325 THEN 2
             ELSE 0
    ELSE 0

\* compute_risk adding the magnitude of cough_severity
compute_risk_magnitude(entry) ==
    LET cough == IntOf(Get(entry, "cough_severity", PyInt(0)))
        score == (IF cough.val < 0 THEN 0 - cough.val ELSE cough.val)
                 + (IF Truthy(entry["asthma_trouble"]) THEN 2 ELSE 0)
                 + (IF Truthy(entry["fever"]) THEN 3 ELSE 0)
                 + ExposurePoints(entry)
                 + PeakFlowPoints(entry)
    IN  IF ~cough.ok
        THEN [raised |-> TRUE, label |-> "", score |-> 0]
        ELSE [raised |-> FALSE, label |-> Label(score), score |-> score]

\* [raised, label, score]; raised: the int() of cough_severity raised ValueError,
\* which compute_risk does not catch.
compute_risk(entry) ==
    LET cough == IntOf(Get(entry, "cough_severity", PyInt(0)))
        score == cough.val
                 + (IF Truthy(entry["asthma_trouble"]) THEN 2 ELSE 0)
                 + (IF Truthy(entry["fever"]) THEN 3 ELSE 0)
                 + ExposurePoints(entry)
                 + PeakFlowPoints(entry)
    IN  IF ~cough.ok
        THEN [raised |-> TRUE, label |-> "", score |-> 0]
        ELSE [raised |-> FALSE, label |-> Label(score), score |-> score]

(***************************************************************************)
(* Character order, datetime formatting, sorting                           *)
(***************************************************************************)
\* The printable ASCII characters in code point order: 32 to 95, and 97 to 126
\* (96, the grave accent, is left out).
AsciiLow ==
    <<" ", "!", "\"", "#", "$", "%", "&", "'", "(", ")", "*", "+", ",", "-",
    ".", "/", "0", "1", "2", "3", "4", "5", "6", "7", "8", "9", ":", ";", "<",
    "=", ">", "?", "@", "A", "B", "C", "D", "E", "F", "G", "H", "I", "J", "K",
    "L", "M", "N", "O", "P", "Q", "R", "S", "T", "U", "V", "W", "X", "Y", "Z",
    "[", "\\", "]", "^", "_">>

AsciiHigh ==
    <<"a", "b", "c", "d", "e", "f", "g", "h", "i", "j", "k", "l", "m", "n",
    "o", "p", "q", "r", "s", "t", "u", "v", "w", "x", "y", "z", "{", "|", "}",
    "~">>

\* ord(c)
Ord(c) ==
    IF \E k \in 1..Len(AsciiLow) : AsciiLow[k] = c
    THEN 31 + (CHOOSE k \in 1..Len(AsciiLow) : AsciiLow[k] = c)
    ELSE 96 + (CHOOSE k \in 1..Len(AsciiHigh) : AsciiHigh[k] = c)

\* a < b for Python strings: by code point, a proper prefix is smaller.
RECURSIVE StrLess(_, _)
StrLess(a, b) ==
    IF b = <<>> THEN FALSE
    ELSE IF a = <<>> THEN TRUE
    ELSE IF Head(a) # Head(b) THEN Ord(Head(a)) < Ord(Head(b))
    ELSE StrLess(Tail(a), Tail(b))

RECURSIVE IntToChars(_)
\* str(n) and the JSON text of an int
IntToChars(n) ==
    IF n < 0 THEN <<"-">> \o IntToChars(0 - n)
    ELSE IF n < 10 THEN <<Digits[n + 1]>>
    ELSE IntToChars(n \div 10) \o <<Digits[(n % 10) + 1]>>

\* A datetime is a day number; the zero-padded fields of the ISO format are
\* kept as one two-digit day field, and the time of day as the marker "T".
strftime(day) == <<Digits[(day \div 10) + 1], Digits[(day % 10) + 1]>>

isoformat(day) == strftime(day) \o <<"T">>

\* datetime.utcnow(): the wall clock, which need not advance between requests.
Nows == 2..MaxDay

Reverse(seq) == [k \in 1..Len(seq) |-> seq[Len(seq) + 1 - k]]

\* Insert x behind every element whose timestamp is not greater (stable).
RECURSIVE InsertByTimestamp(_, _)
InsertByTimestamp(x, sorted) ==
    IF sorted = <<>> THEN <<x>>
    ELSE IF StrLess(x["timestamp"].s, Head(sorted)["timestamp"].s)
    THEN <<x>> \o sorted
    ELSE <<Head(sorted)>> \o InsertByTimestamp(x, Tail(sorted))

RECURSIVE SortedSoFar(_, _)
SortedSoFar(seq, k) ==
    IF k = 0 THEN <<>> ELSE InsertByTimestamp(seq[k], SortedSoFar(seq, k - 1))

\* list.sort(key=lambda e: e["timestamp"]): stable, ascending
SortByTimestamp(seq) == SortedSoFar(seq, Len(seq))

\* The ascending sort reversed: descending, equal timestamps in reverse order
SortByTimestampThenReverse(seq) == Reverse(SortByTimestamp(seq))

\* list.sort(key=..., reverse=True): the stable sort of the reversed list, reversed
SortByTimestampReverse(seq) == Reverse(SortByTimestamp(Reverse(seq)))

(***************************************************************************)
(* JSON text and DATA_PATH                                                 *)
(***************************************************************************)
RECURSIVE Escape(_)
Escape(str) ==
    IF str = <<>> THEN <<>>
    ELSE IF Head(str) \in {"\"", "\\"}
    THEN <<"\\", Head(str)>> \o Escape(Tail(str))
    ELSE <<Head(str)>> \o Escape(Tail(str))

RECURSIVE Unescape(_)
Unescape(str) ==
    IF str = <<>> THEN <<>>
    ELSE IF Head(str) = "\\" /\ Len(str) > 1
    THEN <<str[2]>> \o Unescape(SubSeq(str, 3, Len(str)))
    ELSE <<Head(str)>> \o Unescape(Tail(str))

\* JsonEncode writing strings without escaping them
JsonEncodeRaw(v) ==
    CASE v.tag = "int" -> IntToChars(v.i)
      [] v.tag = "bool" -> IF v.i = 1 THEN <<"t", "r", "u", "e">>
                           ELSE <<"f", "a", "l", "s", "e">>
      [] v.tag = "str" -> <<"\"">> \o v.s \o <<"\"">>
      [] OTHER -> <<>>

\* The JSON text of one value; a key the dict lacks has no member, written <<>>.
JsonEncode(v) ==
    CASE v.tag = "int" -> IntToChars(v.i)
      [] v.tag = "bool" -> IF v.i = 1 THEN <<"t", "r", "u", "e">>
                           ELSE <<"f", "a", "l", "s", "e">>
      [] v.tag = "str" -> <<"\"">> \o Escape(v.s) \o <<"\"">>
      [] OTHER -> <<>>

JsonDecode(lexeme) ==
    IF lexeme = <<>> THEN Absent
    ELSE IF Head(lexeme) = "\""
    THEN PyStr(Unescape(SubSeq(lexeme, 2, Len(lexeme) - 1)))
    ELSE IF lexeme = <<"t", "r", "u", "e">> THEN PyBool(TRUE)
    ELSE IF lexeme = <<"f", "a", "l", "s", "e">> THEN PyBool(FALSE)
    ELSE PyInt(IntLiteral(lexeme).val)

\* json.dumps(entries, indent=2): an array of objects, each member a JSON text
json_dumps(entries) ==
    [k \in 1..Len(entries) |->
        [key \in DOMAIN entries[k] |-> JsonEncode(entries[k][key])]]

json_loads(doc) ==
    [k \in 1..Len(doc) |-> [key \in DOMAIN doc[k] |-> JsonDecode(doc[k][key])]]

\* DATA_PATH: missing, or holding a JSON array; torn: opened for writing and
\* truncated, the text not yet written.
NoFile == [exists |-> FALSE, torn |-> FALSE, doc |-> <<>>]

Truncated == [exists |-> TRUE, torn |-> TRUE, doc |-> <<>>]

\* DATA_PATH.write_text(text)
write_text(doc) == [exists |-> TRUE, torn |-> FALSE, doc |-> doc]

\* _ensure_data_file: the file after the call
ensure_data_file(f) == IF ~f.exists THEN write_text(json_dumps(<<>>)) ELSE f

\* json.loads(DATA_PATH.read_text()): raises on a torn (empty) file
read_entries(f) ==
    [raised |-> f.torn, entries |-> IF f.torn THEN <<>> ELSE json_loads(f.doc)]

\* load_entries: [file, raised, entries], file being DATA_PATH after the call
load_entries(f) ==
    LET g == ensure_data_file(f)
        r == read_entries(g)
    IN  [file |-> g, raised |-> r.raised, entries |-> r.entries]

\* save_entries: DATA_PATH after the call
save_entries(entries) == write_text(json_dumps(entries))

\* The entries DATA_PATH holds
Stored(f) == json_loads(f.doc)

(***************************************************************************)
(* Entries: demo_entries and build_entry                                   *)
(*                                                                         *)
(* An entry keeps the keys the handlers read and one of the four free-text *)
(* note keys (cough_notes); asthma_notes, medication and teacher_note are  *)
(* built, stored and listed exactly as cough_notes is.                     *)
(***************************************************************************)
Entry(timestamp, date, cough_severity, cough_notes, asthma_trouble, peak_flow, fever, exposures) ==
    [timestamp |-> timestamp, date |-> date, cough_severity |-> cough_severity,
     cough_notes |-> cough_notes, asthma_trouble |-> asthma_trouble,
     peak_flow |-> peak_flow, fever |-> fever, exposures |-> exposures]

DemoCoughNotes ==
    << <<"C", "l", "e", "a", "r", " ", "d", "a", "y", "t", "i", "m", "e", " ",
         "c", "o", "u", "g", "h", ".">>,
       <<"N", "i", "g", "h", "t", " ", "c", "o", "u", "g", "h", " ", "w", "i",
         "t", "h", " ", "p", "h", "l", "e", "g", "m", ".">>,
       <<"S", "h", "o", "r", "t", " ", "b", "u", "r", "s", "t", "s", " ", "a",
         "f", "t", "e", "r", " ", "r", "e", "c", "e", "s", "s", ".">> >>

exposure_options ==
    << <<"P", "o", "l", "l", "e", "n">>,
       <<"P", "o", "l", "l", "e", "n", ",", " ", "c", "o", "l", "d", " ", "c",
         "o", "n", "t", "a", "c", "t">>,
       <<"S", "m", "o", "k", "e">> >>

\* The sample built for one offset, day being now - timedelta(days=offset)
DemoSample(now, offset) ==
    Entry(PyStr(isoformat(now - offset)),
          PyStr(strftime(now - offset)),
          PyInt(Min(5, offset * 2)),
          PyStr(DemoCoughNotes[offset + 1]),
          PyBool(offset # 0),
          PyStr(IntToChars(340 - (offset * 30))),
          PyBool(offset = 2),
          PyStr(exposure_options[offset + 1]))

demo_entries(now) ==
    SortByTimestamp(<<DemoSample(now, 0), DemoSample(now, 1), DemoSample(now, 2)>>)

\* request.form: the keys of Entry but timestamp, each a string or absent
Form(date, cough_severity, cough_notes, asthma_trouble, peak_flow, fever, exposures) ==
    [date |-> date, cough_severity |-> cough_severity, cough_notes |-> cough_notes,
     asthma_trouble |-> asthma_trouble, peak_flow |-> peak_flow, fever |-> fever,
     exposures |-> exposures]

\* form.get(key, "").strip()
Stripped(form, key) == PyStr(Strip(Get(form, key, PyStr(<<>>)).s))

\* build_entry: [raised, entry]; raised: int() of the cough_severity field
\* raised ValueError.  Both utcnow() calls read the same day.
build_entry(form, now) ==
    LET cough == IntOf(Get(form, "cough_severity", PyInt(0)))
    IN  [raised |-> ~cough.ok,
         entry |->
            Entry(PyStr(isoformat(now)),
                  IF Truthy(form["date"]) THEN form["date"] ELSE PyStr(strftime(now)),
                  PyInt(cough.val),
                  Stripped(form, "cough_notes"),
                  PyBool(Truthy(form["asthma_trouble"])),
                  Stripped(form, "peak_flow"),
                  PyBool(Truthy(form["fever"])),
                  Stripped(form, "exposures"))]

\* The new entry taken for the whole list
AppendEntryAlone(entries, entry) == <<entry>>

\* entries.append(entry)
AppendEntry(entries, entry) == Append(entries, entry)

(***************************************************************************)
(* Values every specification starts from                                  *)
(***************************************************************************)
NoResponse ==
    [route |-> "", status |-> 0, flash |-> "", entries |-> <<>>, rows |-> <<>>,
     risk |-> ""]

NotScored == [raised |-> FALSE, label |-> "not scored", score |-> 0]

NoEntry ==
    Entry(Absent, Absent, Absent, Absent, Absent, Absent, Absent, Absent)

Idle ==
    [pc |-> "idle", alone |-> TRUE, entry |-> NoEntry, entries |-> <<>>]

(***************************************************************************)
(* The scorer: compute_risk applied to one entry                           *)
(***************************************************************************)
CoughInputs ==
    {PyInt(n) : n \in {-2, 0, 1, 3, 4, 5, 8, 10}}
    \cup {Absent, PyStr(<<"5">>), PyStr(<<>>), PyStr(<<"x">>),
          PyStr(<<"2", ".", "5">>)}

PeakFlowInputs ==
    {Absent, PyStr(<<>>), PyStr(<<"2", "0", "0">>), PyStr(<<"2", "4", "9">>),
     PyStr(<<"2", "5", "0">>), PyStr(<<"3", "0", "0">>), PyStr(<<"3", "2", "4">>),
     PyStr(<<"3", "2", "5">>), PyStr(<<"3", "5", "0">>), PyStr(<<"a", "b", "c">>),
     PyStr(<<" ", "2", "0", "0", " ">>), PyStr(<<"-", "5">>),
     PyStr(<<"3", "1", "0", ".", "5">>), PyStr(<<"3", "_", "0", "0">>),
     PyStr(<<" ">>)}

ExposureInputs ==
    {Absent, PyStr(<<>>), PyStr(<<"a">>), PyStr(<<"a", ",", "b">>),
     PyStr(<<"a", ",", "b", ",", "c">>), PyStr(<<"a", ",", "b", ",", "c", ",", "d">>),
     PyStr(<<"a", ",", "b", ",", "c", ",", "d", ",", "e">>), PyStr(<<",">>)}

RiskEntries ==
    {Entry(PyStr(isoformat(2)), PyStr(strftime(2)), c, PyStr(<<>>), PyBool(a), p,
           PyBool(f), x) :
        c \in CoughInputs, a \in BOOLEAN, p \in PeakFlowInputs, f \in BOOLEAN,
        x \in ExposureInputs}

InitRisk ==
    /\ arg \in RiskEntries
    /\ risk = NotScored
    /\ file = NoFile /\ response = NoResponse
    /\ mem = <<>> /\ op = "init"
    /\ proc = [p \in {1, 2} |-> Idle]

Score ==
    /\ risk = NotScored
    /\ risk' = compute_risk(arg)
    /\ UNCHANGED <<file, response, arg, mem, op, proc>>

NextRisk == Score

SpecRisk == InitRisk /\ [][NextRisk]_vars

(***************************************************************************)
(* The request handlers, one request at a time                             *)
(***************************************************************************)
Respond(route, status, flash, entries, rows, label) ==
    [route |-> route, status |-> status, flash |-> flash, entries |-> entries,
     rows |-> rows, risk |-> label]

\* An unhandled exception: the generic request failure
ServerError(route) == Respond(route, 500, "", <<>>, <<>>, "")

\* index: [file, response]
index(f) ==
    LET loaded == load_entries(f)
        entries == loaded.entries
        latest == entries[Len(entries)]
    IN  [file |-> loaded.file,
         response |->
            IF loaded.raised THEN ServerError("/")
            ELSE IF entries = <<>> THEN Respond("/", 200, "", entries, <<>>, "None")
            ELSE IF compute_risk(latest).raised THEN ServerError("/")
            ELSE Respond("/", 200, "", entries, <<>>, compute_risk(latest).label)]

\* {**entry, "risk": compute_risk(entry)[0], "risk_score": compute_risk(entry)[1]}
WithRisk(entry) ==
    [risk |-> compute_risk(entry).label, risk_score |-> compute_risk(entry).score]
    @@ entry

\* log_view: [file, response]
log_view(f) ==
    LET loaded == load_entries(f)
        entries == loaded.entries
        entries_with_risk == [k \in 1..Len(entries) |-> WithRisk(entries[k])]
    IN  [file |-> loaded.file,
         response |->
            IF loaded.raised \/ \E k \in 1..Len(entries) : compute_risk(entries[k]).raised
            THEN ServerError("/log")
            ELSE Respond("/log", 200, "", <<>>,
                         SortByTimestampReverse(entries_with_risk), "")]

\* load_demo saving the samples whatever the store holds
load_demo_overwrites(f, now) ==
    LET loaded == load_entries(f)
    IN  IF loaded.raised THEN [file |-> loaded.file, response |-> ServerError("/demo")]
        ELSE [file |-> save_entries(demo_entries(now)),
              response |-> Respond("/demo", 302, "success", <<>>, <<>>, "")]

\* load_demo: [file, response]
load_demo(f, now) ==
    LET loaded == load_entries(f)
    IN  IF loaded.raised THEN [file |-> loaded.file, response |-> ServerError("/demo")]
        ELSE IF loaded.entries # <<>>
        THEN [file |-> loaded.file,
              response |-> Respond("/demo", 302, "warning", <<>>, <<>>, "")]
        ELSE [file |-> save_entries(demo_entries(now)),
              response |-> Respond("/demo", 302, "success", <<>>, <<>>, "")]

\* add_entry: [file, response]
add_entry(f, form, now) ==
    LET built == build_entry(form, now)
        loaded == load_entries(f)
        entries == AppendEntry(loaded.entries, built.entry)
    IN  IF built.raised THEN [file |-> f, response |-> ServerError("/entry")]
        ELSE IF loaded.raised
        THEN [file |-> loaded.file, response |-> ServerError("/entry")]
        ELSE [file |-> save_entries(entries),
              response |-> Respond("/entry", 302, "success", <<>>, <<>>,
                                   compute_risk(built.entry).label)]

\* Submitted forms: a full one, a sparse one whose peak_flow is no number, and
\* one whose cough_severity field is empty.
FormFull ==
    Form(Absent, PyStr(<<"3">>), PyStr(<<" ", "a", "\"", "b", " ">>),
         PyStr(<<"o", "n">>), PyStr(<<" ", "3", "0", "0">>), Absent,
         PyStr(<<"a", ",", "b">>))

FormSparse ==
    Form(PyStr(<<"0", "1">>), PyStr(<<"0">>), PyStr(<<>>), Absent,
         PyStr(<<"a", "b", "c">>), Absent, PyStr(<<>>))

FormNoCough ==
    Form(Absent, PyStr(<<>>), PyStr(<<>>), Absent, PyStr(<<>>), PyStr(<<"o", "n">>),
         PyStr(<<>>))

Forms == {FormFull, FormSparse, FormNoCough}

Init ==
    /\ file = NoFile
    /\ response = NoResponse
    /\ arg = NoEntry /\ risk = NotScored
    /\ mem = <<>> /\ op = "init"
    /\ proc = [p \in {1, 2} |-> Idle]

Index ==
    /\ file' = index(file).file
    /\ response' = index(file).response
    /\ UNCHANGED <<arg, risk, mem, op, proc>>

LogView ==
    /\ file' = log_view(file).file
    /\ response' = log_view(file).response
    /\ UNCHANGED <<arg, risk, mem, op, proc>>

LoadDemo ==
    \E now \in Nows :
        /\ file' = load_demo(file, now).file
        /\ response' = load_demo(file, now).response
        /\ UNCHANGED <<arg, risk, mem, op, proc>>

AddEntry ==
    \E form \in Forms, now \in Nows :
        /\ Len(file.doc) < MaxEntries
        /\ file' = add_entry(file, form, now).file
        /\ response' = add_entry(file, form, now).response
        /\ UNCHANGED <<arg, risk, mem, op, proc>>

Next == Index \/ LogView \/ LoadDemo \/ AddEntry

Spec == Init /\ [][Next]_vars

(***************************************************************************)
(* The store: save_entries and load_entries called with any list           *)
(***************************************************************************)
\* An entry with a backslash and a quote in a note, a negative severity, no
\* date key, and the text "true" where another entry has the boolean.
OddEntry ==
    Entry(PyStr(isoformat(2)), Absent, PyInt(-12), PyStr(<<"\\", "\"">>),
          PyBool(FALSE), PyStr(<<>>), PyBool(TRUE), PyStr(<<"t", "r", "u", "e">>))

SampleEntries ==
    {build_entry(FormFull, 2).entry, build_entry(FormSparse, 3).entry,
     DemoSample(3, 2), OddEntry}

RECURSIVE ListsUpTo(_)
ListsUpTo(n) ==
    IF n = 0 THEN {<<>>}
    ELSE ListsUpTo(n - 1)
         \cup {Append(l, e) : l \in {m \in ListsUpTo(n - 1) : Len(m) = n - 1},
                              e \in SampleEntries}

InitStore ==
    /\ file = NoFile
    /\ mem = <<>> /\ op = "init"
    /\ response = NoResponse
    /\ arg = NoEntry /\ risk = NotScored
    /\ proc = [p \in {1, 2} |-> Idle]

SaveEntries ==
    \E entries \in ListsUpTo(MaxLen) :
        /\ file' = save_entries(entries)
        /\ mem' = entries
        /\ op' = "save"
        /\ UNCHANGED <<response, arg, risk, proc>>

LoadEntries ==
    /\ file' = load_entries(file).file
    /\ mem' = load_entries(file).entries
    /\ op' = "load"
    /\ UNCHANGED <<response, arg, risk, proc>>

NextStore == SaveEntries \/ LoadEntries

SpecStore == InitStore /\ [][NextStore]_vars

(***************************************************************************)
(* Two POST /entry requests served by two threads.  Each runs add_entry    *)
(* statement by statement; write_text opens the file, which truncates it,  *)
(* and then writes the text.                                               *)
(***************************************************************************)
Other(p) == 3 - p

InitConc ==
    /\ file \in {NoFile, write_text(json_dumps(<<>>)), save_entries(<<OddEntry>>)}
    /\ proc = [p \in {1, 2} |-> [Idle EXCEPT !.pc = "start"]]
    /\ response = NoResponse
    /\ arg = NoEntry /\ risk = NotScored
    /\ mem = <<>> /\ op = "init"

\* entry = build_entry(request.form)
Build(p) ==
    \E form \in Forms, now \in Nows :
        /\ proc[p].pc = "start"
        /\ proc' = [proc EXCEPT ![p] =
              [pc |-> IF build_entry(form, now).raised THEN "error" ELSE "ensure",
               alone |-> proc[Other(p)].pc \in {"start", "done", "error"},
               entry |-> build_entry(form, now).entry,
               entries |-> <<>>]]
        /\ UNCHANGED <<file, response, arg, risk, mem, op>>

\* _ensure_data_file: if not DATA_PATH.exists()
CheckExists(p) ==
    /\ proc[p].pc = "ensure"
    /\ proc' = [proc EXCEPT ![p].pc = IF file.exists THEN "read" ELSE "create"]
    /\ UNCHANGED <<file, response, arg, risk, mem, op>>

\* A thread writes its text from the start of the file it opened.  Onto the
\* file as the open left it the text stands alone; onto a text another thread
\* wrote meanwhile it stands alone if it covers that text, and otherwise
\* the file holds no JSON text.
Written(doc) ==
    IF file.torn THEN {write_text(doc)} ELSE {write_text(doc), Truncated}

\* _ensure_data_file: DATA_PATH.write_text("[]"), the open
CreateOpen(p) ==
    /\ proc[p].pc = "create"
    /\ file' = Truncated
    /\ proc' = [proc EXCEPT ![p].pc = "create_write"]
    /\ UNCHANGED <<response, arg, risk, mem, op>>

\* _ensure_data_file: DATA_PATH.write_text("[]"), the write
CreateWrite(p) ==
    /\ proc[p].pc = "create_write"
    /\ file' \in Written(json_dumps(<<>>))
    /\ proc' = [proc EXCEPT ![p].pc = "read"]
    /\ UNCHANGED <<response, arg, risk, mem, op>>

\* entries = json.loads(DATA_PATH.read_text()); entries.append(entry)
ReadAppend(p) ==
    /\ proc[p].pc = "read"
    /\ proc' = [proc EXCEPT ![p] =
          IF read_entries(file).raised
          THEN [proc[p] EXCEPT !.pc = "error"]
          ELSE [proc[p] EXCEPT
                   !.pc = "save",
                   !.entries = AppendEntry(read_entries(file).entries, proc[p].entry)]]
    /\ UNCHANGED <<file, response, arg, risk, mem, op>>

\* save_entries: DATA_PATH.write_text(json.dumps(entries)), the open
SaveOpen(p) ==
    /\ proc[p].pc = "save"
    /\ file' = Truncated
    /\ proc' = [proc EXCEPT ![p].pc = "save_write"]
    /\ UNCHANGED <<response, arg, risk, mem, op>>

\* save_entries: the write; compute_risk, flash and redirect follow and touch
\* nothing the threads share.
SaveWrite(p) ==
    /\ proc[p].pc = "save_write"
    /\ file' \in Written(json_dumps(proc[p].entries))
    /\ proc' = [proc EXCEPT ![p].pc = "done"]
    /\ UNCHANGED <<response, arg, risk, mem, op>>

NextConc ==
    \E p \in {1, 2} :
        \/ Build(p)
        \/ CheckExists(p)
        \/ CreateOpen(p)
        \/ CreateWrite(p)
        \/ ReadAppend(p)
        \/ SaveOpen(p)
        \/ SaveWrite(p)

SpecConc == InitConc /\ [][NextConc]_vars

(***************************************************************************)
(* Properties of the scorer                                                *)
(***************************************************************************)
Scored == risk # NotScored /\ ~risk.raised

\* What the inputs denote, written out independently of the parser.
CoughNumber(v) ==
    CASE v.tag = "int" -> v.i
      [] v = PyStr(<<"5">>) -> 5
      [] OTHER -> 0

PeakFlowTable ==
    {<< <<"2", "0", "0">>, 200 >>, << <<"2", "4", "9">>, 249 >>,
     << <<"2", "5", "0">>, 250 >>, << <<"3", "0", "0">>, 300 >>,
     << <<"3", "2", "4">>, 324 >>, << <<"3", "2", "5">>, 325 >>,
     << <<"3", "5", "0">>, 350 >>, << <<" ", "2", "0", "0", " ">>, 200 >>,
     << <<"-", "5">>, -5 >>, << <<"3", "_", "0", "0">>, 300 >>}

PeakFlowExpected(v) ==
    IF v.tag = "str" /\ \E row \in PeakFlowTable : row[1] = v.s
    THEN LET n == (CHOOSE row \in PeakFlowTable : row[1] = v.s)[2]
         IN  IF n < 250 THEN 3 ELSE IF n <= 324 THEN 2 ELSE 0
    ELSE 0

TokenCount(v) ==
    IF v.tag # "str" \/ v.s = <<>> THEN 0
    ELSE Cardinality({k \in 1..Len(v.s) : v.s[k] = ","}) + 1

\* The part of the returned score that the key accounts for
Contribution(key) == risk.score - compute_risk([arg EXCEPT ![key] = Absent]).score

\* C1: the score is cough_severity + 2 if asthma_trouble + 3 if fever + the number
\* of comma-separated exposure tokens capped at 3 (0 for no exposures) + the
\* peak-flow contribution; the all-clear entry scores 0 and is "Low"; three or
\* more exposures contribute exactly 3.
C1_ScoreIsWeightedSum ==
    Scored =>
        /\ risk.score = CoughNumber(arg["cough_severity"])
                        + (IF arg["asthma_trouble"] = PyBool(TRUE) THEN 2 ELSE 0)
                        + (IF arg["fever"] = PyBool(TRUE) THEN 3 ELSE 0)
                        + Min(3, TokenCount(arg["exposures"]))
                        + PeakFlowExpected(arg["peak_flow"])
        /\ (/\ CoughNumber(arg["cough_severity"]) = 0
            /\ arg["asthma_trouble"] = PyBool(FALSE)
            /\ arg["fever"] = PyBool(FALSE)
            /\ TokenCount(arg["exposures"]) = 0
            /\ arg["peak_flow"] \in {Absent, PyStr(<<>>)})
           => risk.score = 0 /\ risk.label = "Low"
        /\ TokenCount(arg["exposures"]) >= 3 => Contribution("exposures") = 3

C1_Witness ==
    /\ Scored
    /\ TokenCount(arg["exposures"]) = 5
    /\ arg["peak_flow"] = PyStr(<<"2", "0", "0">>)
    /\ risk.score = 21

\* C2: the label is a function of the score: "High" exactly from 8 up, "Moderate"
\* exactly from 4 to 7, "Low" exactly up to 3, negative scores included.
C2_LabelByThreshold ==
    Scored =>
        /\ risk.label = "High" <=> risk.score >= 8
        /\ risk.label = "Moderate" <=> (risk.score >= 4 /\ risk.score <= 7)
        /\ risk.label = "Low" <=> risk.score <= 3

C2_Witness == Scored /\ risk.score = 8 /\ risk.label = "High"

\* C3: peak flow adds 3 below 250, 2 from 250 to 324, and nothing from 325 up,
\* when missing or empty, and when it is not a number.
C3_PeakFlowContribution ==
    Scored =>
        /\ Contribution("peak_flow") = PeakFlowExpected(arg["peak_flow"])
        /\ arg["peak_flow"] = PyStr(<<"2", "0", "0">>) => Contribution("peak_flow") = 3
        /\ arg["peak_flow"] = PyStr(<<"3", "0", "0">>) => Contribution("peak_flow") = 2
        /\ arg["peak_flow"] = PyStr(<<"3", "5", "0">>) => Contribution("peak_flow") = 0
        /\ arg["peak_flow"] \in {Absent, PyStr(<<>>), PyStr(<<"a", "b", "c">>)}
              => Contribution("peak_flow") = 0

C3_Witness ==
    Scored /\ arg["peak_flow"] = PyStr(<<"2", "5", "0">>) /\ Contribution("peak_flow") = 2

\* C5: raising cough_severity alone never lowers the score, and neither does
\* turning asthma_trouble or fever on alone.
C5_Monotone ==
    Scored =>
        /\ \A c \in CoughInputs :
              (c.tag = "int" /\ arg["cough_severity"].tag = "int"
               /\ c.i >= arg["cough_severity"].i)
              => compute_risk([arg EXCEPT !["cough_severity"] = c]).score >= risk.score
        /\ \A key \in {"asthma_trouble", "fever"} :
              arg[key] = PyBool(FALSE)
              => compute_risk([arg EXCEPT ![key] = PyBool(TRUE)]).score >= risk.score

C5_Witness ==
    /\ Scored
    /\ arg["cough_severity"] = PyInt(-2)
    /\ arg["asthma_trouble"] = PyBool(FALSE)
    /\ compute_risk([arg EXCEPT !["cough_severity"] = PyInt(0)]).score > risk.score

(***************************************************************************)
(* Properties of the request handlers                                      *)
(***************************************************************************)
IsPrefix(a, b) == Len(a) <= Len(b) /\ SubSeq(b, 1, Len(a)) = a

\* The input is a number as far as int() is concerned
Malformed(v) == v.tag = "str" /\ ~IntLiteral(v.s).ok

\* C4: malformed numeric input raises no error: compute_risk returns a pair in
\* which a cough_severity or peak_flow that is no integer string counts for
\* nothing, and POST /entry completes by appending an entry.
C4_NoErrorOnMalformedInput ==
    /\ (risk # NotScored /\ Malformed(arg["cough_severity"]))
       => ~risk.raised /\ Contribution("cough_severity") = 0
    /\ (risk # NotScored /\ Malformed(arg["peak_flow"]))
       => ~risk.raised /\ Contribution("peak_flow") = 0
    /\ response.route = "/entry"
       => response.status = 302 /\ Stored(file) # <<>>

\* C6: the store is append-only: every request leaves the old contents as a
\* prefix of the new, POST /entry adds exactly one entry at the end, and GET /
\* and GET /log leave the entries as they are.
C6_AppendOnly ==
    [][/\ IsPrefix(Stored(file), Stored(file'))
       /\ response'.route = "/entry"
          => /\ Len(Stored(file')) = Len(Stored(file)) + 1
             /\ SubSeq(Stored(file'), 1, Len(Stored(file))) = Stored(file)
       /\ response'.route \in {"/", "/log"}
          => Stored(file') = Stored(file) /\ file'.exists]_vars

\* C7: GET /demo on an empty or absent store leaves exactly 3 entries, and on a
\* store with an entry leaves it unchanged; a second GET /demo changes nothing.
C7_DemoSeedsOnlyEmptyStore ==
    [][/\ response'.route = "/demo"
          => IF Stored(file) = <<>>
             THEN Len(Stored(file')) = 3
             ELSE Stored(file') = Stored(file)
       /\ (response.route = "/demo" /\ response'.route = "/demo")
          => Stored(file') = Stored(file)]_vars

C7_Witness ==
    /\ response.route = "/demo"
    /\ response.flash = "success"
    /\ Len(Stored(file)) = 3

\* C9: GET /log lists every stored entry exactly once, each with the label and
\* score compute_risk gives it, by non-increasing timestamp, entries of equal
\* timestamp in store order.
C9_LogSortedAndAnnotated ==
    (response.route = "/log" /\ response.status = 200) =>
        LET stored == Stored(file)
            rows == response.rows
            n == Len(stored)
        IN  /\ Len(rows) = n
            /\ \E at \in Permutations(1..n) :
                  /\ \A k \in 1..n :
                        /\ [key \in DOMAIN stored[at[k]] |-> rows[k][key]] = stored[at[k]]
                        /\ rows[k]["risk"] = compute_risk(stored[at[k]]).label
                        /\ rows[k]["risk_score"] = compute_risk(stored[at[k]]).score
                  /\ \A j, k \in 1..n :
                        j < k =>
                          /\ ~StrLess(rows[j]["timestamp"].s, rows[k]["timestamp"].s)
                          /\ rows[j]["timestamp"] = rows[k]["timestamp"] => at[j] < at[k]

C9_Witness ==
    /\ response.route = "/log"
    /\ Len(response.rows) = 3
    /\ response.rows[1]["timestamp"] # response.rows[2]["timestamp"]
    /\ response.rows[2]["timestamp"] = response.rows[3]["timestamp"]
    /\ response.rows[2]["cough_severity"] # response.rows[3]["cough_severity"]

(***************************************************************************)
(* Properties of the store                                                 *)
(***************************************************************************)
\* C8: load_entries after save_entries(entries) returns entries, same length and
\* order; load_entries on an absent store creates an empty store and returns
\* the empty list.
C8_SaveLoadRoundTrip ==
    [][/\ (op = "save" /\ op' = "load")
          => /\ mem' = mem
             /\ Len(mem') = Len(mem)
             /\ \A k \in 1..Len(mem) : mem'[k] = mem[k]
       /\ (op' = "load" /\ ~file.exists)
          => /\ mem' = <<>>
             /\ file'.exists /\ ~file'.torn /\ file'.doc = <<>>]_vars

C8_Witness ==
    /\ op = "load"
    /\ Len(mem) = 3
    /\ mem[1] = OddEntry
    /\ mem[2] = DemoSample(3, 2)
    /\ mem[3] = build_entry(FormFull, 2).entry

(***************************************************************************)
(* Properties of concurrent requests                                       *)
(***************************************************************************)
BothDone == proc[1].pc = "done" /\ proc[2].pc = "done"

\* Neither request began while the other was between its first and last step.
OneAfterTheOther == proc[1].alone /\ proc[2].alone

\* C10: two POST /entry requests that run one after the other and both
\* complete leave both new entries in the store, after what it held before;
\* run concurrently they can both complete and leave only one of the two
\* (the witness).
C10_SerialKeepsBoth ==
    (BothDone /\ OneAfterTheOther) =>
        \E p \in {1, 2} :
            /\ ~file.torn
            /\ Len(proc[p].entries) >= 1
            /\ proc[p].entries[Len(proc[p].entries)] = proc[p].entry
            /\ Stored(file) = Append(proc[p].entries, proc[Other(p)].entry)
            /\ proc[Other(p)].entries = Stored(file)

C10_LostUpdateWitness ==
    /\ BothDone
    /\ ~OneAfterTheOther
    /\ ~file.torn
    /\ Len(proc[1].entries) = Len(proc[2].entries)
    /\ proc[1].entry # proc[2].entry
    /\ Stored(file) = proc[1].entries
    /\ \A k \in 1..Len(Stored(file)) : Stored(file)[k] # proc[2].entry

====
